---- MODULE Spec2Model ----
(***************************************************************************)
(* `into duration` of nu-command: conversion of duration literals such as  *)
(* '7min' or '1day 2hr 3min 4sec' into a signed 64-bit nanosecond count,   *)
(* applied to the elements of a pipeline, wholesale or at cell paths.      *)
(*                                                                         *)
(* An i64 is kept as its 8 two's-complement bytes, least significant       *)
(* first.  The exact result of one arithmetic operation on two i64 values  *)
(* is computed in 16 bytes, where no product or sum of two i64 values can  *)
(* overflow, and is then brought back to 8 bytes the way the build does.   *)
(***************************************************************************)
EXTENDS Integers, Sequences, FiniteSets, TLC

VARIABLES
    input,            \* the elements of the input PipelineData, in order
    column_paths,     \* the rest arguments of the call: the cell paths
    span,             \* input.span() or call.head: the target span
    overflow_checks,  \* whether the build panics on integer overflow
    ctrlc,            \* engine_state.ctrlc, the cancellation flag
    pc,               \* position of the lazy walk over the elements
    idx,              \* number of elements pulled from the input so far
    output,           \* the elements emitted downstream so far
    invocations,      \* how many times the mapping closure has been called
    attempts,         \* per pulled element, the update_cell_path calls made
    phrase            \* the tokens the test phrase was written from

vars == <<input, column_paths, span, overflow_checks, ctrlc, pc, idx,
          output, invocations, attempts, phrase>>

----------------------------------------------------------------------------
(* Two's-complement arithmetic on byte sequences, least significant first. *)

RECURSIVE NatBytes(_, _)
NatBytes(n, k) ==
    IF k = 0 THEN <<>> ELSE <<n % 256>> \o NatBytes(n \div 256, k - 1)

RECURSIVE AddCarry(_, _, _)
AddDigit(a, b, s) == <<s % 256>> \o AddCarry(Tail(a), Tail(b), s \div 256)

AddCarry(a, b, c) ==
    IF a = <<>> THEN <<>> ELSE AddDigit(a, b, Head(a) + Head(b) + c)

\* a * d + c for one digit d
RECURSIVE ScaleCarry(_, _, _)
ScaleDigit(a, d, p) == <<p % 256>> \o ScaleCarry(Tail(a), d, p \div 256)

ScaleCarry(a, d, c) ==
    IF a = <<>> THEN <<>> ELSE ScaleDigit(a, d, Head(a) * d + c)

\* a * b modulo 256^Len(a), for a and b of the same length
RECURSIVE MulTrunc(_, _)
MulRow(a, d, high) ==
    IF d = 0 THEN high ELSE AddCarry(ScaleCarry(a, d, 0), high, 0)

MulTrunc(a, b) ==
    IF b = <<>> THEN <<>>
    ELSE MulRow(a, Head(b), <<0>> \o MulTrunc(SubSeq(a, 1, Len(a) - 1), Tail(b)))

Negate(a) == AddCarry([i \in 1..Len(a) |-> 255 - a[i]], NatBytes(1, Len(a)), 0)

\* the 16-byte value of a small integer
Wide(n) == IF n >= 0 THEN NatBytes(n, 16) ELSE Negate(NatBytes(0 - n, 16))

\* sign extension of an i64 to 16 bytes, and the low 8 bytes of a wide value
Extend(x) == x \o [i \in 1..8 |-> IF x[8] >= 128 THEN 255 ELSE 0]
Truncate(a) == SubSeq(a, 1, 8)
FitsI64(a) == Extend(Truncate(a)) = a

\* the i64 value of a small integer
I64(n) == Truncate(Wide(n))

NS_PER_SEC == 1000000000

\* x * y and x + y on i64: the wrapped result and whether it overflowed
Checked(exact) == [overflow |-> ~FitsI64(exact), val |-> Truncate(exact)]

i64_mul(x, y) == Checked(MulTrunc(Extend(x), Extend(y)))

i64_add(x, y) == Checked(AddCarry(Extend(x), Extend(y), 0))

----------------------------------------------------------------------------
(* Text.  A string is the sequence of its characters; a character outside  *)
(* ASCII is named by its code point and takes two bytes in UTF-8.          *)

MicroSign == "U+00B5"
GreekMu == "U+03BC"

IsWhitespace(c) == c \in {" ", "\t", "\n"}

ByteLen(c) == IF c \in {MicroSign, GreekMu} THEN 2 ELSE 1

RECURSIVE ByteLength(_)
ByteLength(s) == IF s = <<>> THEN 0 ELSE ByteLen(Head(s)) + ByteLength(Tail(s))

Span(start, end) == [start |-> start, end |-> end]

\* s.split_whitespace(), each piece with the byte offset addr_of(sub) - addr_of(s)
Piece(cur, start) == IF cur = <<>> THEN <<>> ELSE <<[sub |-> cur, offset |-> start]>>

RECURSIVE SplitFrom(_, _, _, _)
SplitFrom(s, off, cur, start) ==
    IF s = <<>> THEN Piece(cur, start)
    ELSE IF IsWhitespace(Head(s))
         THEN Piece(cur, start) \o SplitFrom(Tail(s), off + ByteLen(Head(s)), <<>>, 0)
         ELSE SplitFrom(Tail(s), off + ByteLen(Head(s)), Append(cur, Head(s)),
                        IF cur = <<>> THEN off ELSE start)

split_whitespace(s) == SplitFrom(s, 0, <<>>, 0)

SpanAt(start_offset, sub) == Span(start_offset, start_offset + ByteLength(sub))

WithSpans(pieces, sp) ==
    [i \in 1..Len(pieces) |->
        [sub |-> pieces[i].sub, span |-> SpanAt(sp.start + pieces[i].offset, pieces[i].sub)]]

split_whitespace_indices(s, sp) == WithSpans(split_whitespace(s), sp)

----------------------------------------------------------------------------
(* The unit table and the token parser of nu_parser.                       *)

DURATION_UNIT_GROUPS ==
    << [name |-> <<"n", "s">>,        unit |-> "Nanosecond"],
       [name |-> <<"u", "s">>,        unit |-> "Microsecond"],
       [name |-> <<MicroSign, "s">>,  unit |-> "Microsecond"],
       [name |-> <<GreekMu, "s">>,    unit |-> "Microsecond"],
       [name |-> <<"m", "s">>,        unit |-> "Millisecond"],
       [name |-> <<"s", "e", "c">>,   unit |-> "Second"],
       [name |-> <<"m", "i", "n">>,   unit |-> "Minute"],
       [name |-> <<"h", "r">>,        unit |-> "Hour"],
       [name |-> <<"d", "a", "y">>,   unit |-> "Day"],
       [name |-> <<"w", "k">>,        unit |-> "Week"] >>

DigitChars == <<"0", "1", "2", "3", "4", "5", "6", "7", "8", "9">>

IsDigit(c) == \E i \in 1..10 : DigitChars[i] = c

DigitValue(c) == (CHOOSE i \in 1..10 : DigitChars[i] = c) - 1

RECURSIVE DigitRun(_)
DigitRun(s) ==
    IF s = <<>> \/ ~IsDigit(Head(s)) THEN 0 ELSE 1 + DigitRun(Tail(s))

\* the value of a run of decimal digits, exact in 16 bytes (at most 19 digits)
RECURSIVE DecimalValue(_, _)
DecimalValue(digits, acc) ==
    IF digits = <<>> THEN acc
    ELSE DecimalValue(Tail(digits), ScaleCarry(acc, 10, DigitValue(Head(digits))))

None == [some |-> FALSE]

Signed(neg, mag) == IF neg THEN Negate(mag) ELSE mag

UnitsNamed(unit_groups, suffix) ==
    {i \in 1..Len(unit_groups) : unit_groups[i].name = suffix}

\* k digits read, found the units the suffix names, x the signed magnitude
ValueWithUnit(k, found, x, unit_groups) ==
    IF k = 0 \/ k > 19 \/ found = {} THEN None
    ELSE IF ~FitsI64(x) THEN None
    ELSE [some |-> TRUE, value |-> Truncate(x),
          unit |-> unit_groups[CHOOSE i \in found : TRUE].unit]

ParseLiteral(neg, body, k, unit_groups) ==
    ValueWithUnit(k, UnitsNamed(unit_groups, SubSeq(body, k + 1, Len(body))),
                  Signed(neg, DecimalValue(SubSeq(body, 1, k), Wide(0))), unit_groups)

ParseSigned(neg, body, unit_groups) ==
    ParseLiteral(neg, body, DigitRun(body), unit_groups)

\* Some(Ok(ValueWithUnit(Int(x), unit))), or None for anything that is not
\* <optional '-'><decimal digits><unit> with an i64 magnitude
parse_unit_value(bytes, unit_groups) ==
    IF bytes # <<>> /\ Head(bytes) = "-"
    THEN ParseSigned(TRUE, Tail(bytes), unit_groups)
    ELSE ParseSigned(FALSE, bytes, unit_groups)

----------------------------------------------------------------------------
(* Outcomes of a Rust function: Ok(val), Err(error), or an unwinding panic *)

Ok(v) == [kind |-> "Ok", val |-> v]
Err(e) == [kind |-> "Err", error |-> e]
Panic == [kind |-> "Panic"]

HelpText == "supported units are ns, us/(U+00B5)s, ms, sec, min, hr, day, and wk"

CantConvertToDuration(s, dst, src) ==
    [kind |-> "CantConvertToDuration", details |-> s,
     dst_span |-> dst, src_span |-> src, help |-> HelpText]

OnlySupportsThisInputType(wrong, dst, src) ==
    [kind |-> "OnlySupportsThisInputType", exp_input_type |-> "string or duration",
     wrong_type |-> wrong, dst_span |-> dst, src_span |-> src]

\* the hour arm with one factor of 60 missing
UnitFactorsShortHour(unit) ==
    CASE unit = "Nanosecond"  -> <<>>
      [] unit = "Microsecond" -> <<1000>>
      [] unit = "Millisecond" -> <<1000, 1000>>
      [] unit = "Second"      -> <<NS_PER_SEC>>
      [] unit = "Minute"      -> <<60, NS_PER_SEC>>
      [] unit = "Hour"        -> <<60, NS_PER_SEC>>
      [] unit = "Day"         -> <<24, 60, 60, NS_PER_SEC>>
      [] unit = "Week"        -> <<7, 24, 60, 60, NS_PER_SEC>>

\* the factors string_to_duration multiplies the magnitude by, left to right
UnitFactors(unit) ==
    CASE unit = "Nanosecond"  -> <<>>
      [] unit = "Microsecond" -> <<1000>>
      [] unit = "Millisecond" -> <<1000, 1000>>
      [] unit = "Second"      -> <<NS_PER_SEC>>
      [] unit = "Minute"      -> <<60, NS_PER_SEC>>
      [] unit = "Hour"        -> <<60, 60, NS_PER_SEC>>
      [] unit = "Day"         -> <<24, 60, 60, NS_PER_SEC>>
      [] unit = "Week"        -> <<7, 24, 60, 60, NS_PER_SEC>>

\* x * f1 * f2 * ... in i64: an overflowing step panics in a build with
\* overflow checks and wraps in a build without
RECURSIVE MulChain(_, _, _)
MulNext(p, factors, checks) ==
    IF p.overflow /\ checks THEN Panic ELSE MulChain(p.val, factors, checks)

MulChain(x, factors, checks) ==
    IF factors = <<>> THEN Ok(x)
    ELSE MulNext(i64_mul(x, I64(Head(factors))), Tail(factors), checks)

ToNanoseconds(parsed, s, sp, checks) ==
    IF parsed.some
    THEN MulChain(parsed.value, UnitFactors(parsed.unit), checks)
    ELSE Err(CantConvertToDuration(s, sp, sp))

string_to_duration(s, sp, checks) ==
    ToNanoseconds(parse_unit_value(s, DURATION_UNIT_GROUPS), s, sp, checks)

\* the running total overwritten by each token instead of added to
RECURSIVE SumTokensOverwrite(_, _, _)
OverwriteNext(sub_ns, tokens, checks) ==
    IF sub_ns.kind # "Ok" THEN sub_ns
    ELSE SumTokensOverwrite(tokens, sub_ns.val, checks)

SumTokensOverwrite(tokens, duration_ns, checks) ==
    IF tokens = <<>> THEN Ok(duration_ns)
    ELSE OverwriteNext(string_to_duration(Head(tokens).sub, Head(tokens).span, checks),
                       Tail(tokens), checks)

RECURSIVE SumTokens(_, _, _)
AddNext(sum, tokens, checks) ==
    IF sum.overflow /\ checks THEN Panic ELSE SumTokens(tokens, sum.val, checks)

SumNext(sub_ns, duration_ns, tokens, checks) ==
    IF sub_ns.kind # "Ok" THEN sub_ns
    ELSE AddNext(i64_add(duration_ns, sub_ns.val), tokens, checks)

SumTokens(tokens, duration_ns, checks) ==
    IF tokens = <<>> THEN Ok(duration_ns)
    ELSE SumNext(string_to_duration(Head(tokens).sub, Head(tokens).span, checks),
                 duration_ns, Tail(tokens), checks)

compound_to_duration(s, sp, checks) ==
    SumTokens(split_whitespace_indices(s, sp), I64(0), checks)

----------------------------------------------------------------------------
(* Values and the conversion of one value.                                 *)

Duration(val, sp) == [tag |-> "Duration", val |-> val, span |-> sp]
String(val, sp) == [tag |-> "String", val |-> val, span |-> sp]
Bool(val, sp) == [tag |-> "Bool", val |-> val, span |-> sp]
Record(cols, vals, sp) == [tag |-> "Record", cols |-> cols, vals |-> vals, span |-> sp]
List(vals, sp) == [tag |-> "List", vals |-> vals, span |-> sp]
ErrorValue(e) == [tag |-> "Error", error |-> e]

\* what the caller of action sees when the conversion panics
Unwind == [tag |-> "Panic"]

get_type(v) ==
    CASE v.tag = "Bool"     -> "bool"
      [] v.tag = "Record"   -> "record"
      [] v.tag = "List"     -> "list"
      [] v.tag = "String"   -> "string"
      [] v.tag = "Duration" -> "duration"
      [] v.tag = "Error"    -> "error"

\* a Duration re-anchored to the target span instead of returned as it is
action_duration_respan(v, sp) == Duration(v.val, sp)

action_duration(v, sp) == v

Wrapped(r, sp) ==
    CASE r.kind = "Ok"  -> Duration(r.val, sp)
      [] r.kind = "Err" -> ErrorValue(r.error)
      [] OTHER          -> Unwind

action_string(v, sp, checks) == Wrapped(compound_to_duration(v.val, v.span, checks), sp)

action_error(v, sp) == v

action_other(v, sp) == ErrorValue(OnlySupportsThisInputType(get_type(v), sp, v.span))

action(v, sp, checks) ==
    CASE v.tag = "Duration" -> action_duration(v, sp)
      [] v.tag = "String"   -> action_string(v, sp, checks)
      [] v.tag = "Error"    -> action_error(v, sp)
      [] OTHER              -> action_other(v, sp)

----------------------------------------------------------------------------
(* Cell paths: locate the value a path addresses, convert it, write the    *)
(* result back in place.                                                   *)

Column(name) == [kind |-> "Column", name |-> name]
Row(index) == [kind |-> "Row", index |-> index]

PathResolutionFailure(member, v) ==
    [kind |-> "PathResolutionFailure", member |-> member, type_name |-> get_type(v)]

\* the position in v.vals that member selects, 0 when it selects nothing
Select(v, member) ==
    CASE v.tag = "Record" /\ member.kind = "Column" ->
            IF \E i \in 1..Len(v.cols) : v.cols[i] = member.name
            THEN CHOOSE i \in 1..Len(v.cols) : v.cols[i] = member.name
            ELSE 0
      [] v.tag = "List" /\ member.kind = "Row" ->
            IF member.index < Len(v.vals) THEN member.index + 1 ELSE 0
      [] OTHER -> 0

Written(new) == IF new = Unwind THEN Panic ELSE Ok(new)

WriteBack(v, k, r) == IF r.kind # "Ok" THEN r ELSE Ok([v EXCEPT !.vals[k] = r.val])

RECURSIVE update_cell_path(_, _, _, _)
Descend(v, members, k, sp, checks) ==
    IF k = 0 THEN Err(PathResolutionFailure(Head(members), v))
    ELSE WriteBack(v, k, update_cell_path(v.vals[k], Tail(members), sp, checks))

update_cell_path(v, members, sp, checks) ==
    IF members = <<>> THEN Written(action(v, sp, checks))
    ELSE Descend(v, members, Select(v, Head(members)), sp, checks)

----------------------------------------------------------------------------
(* The closure into_duration maps over the input.  tried counts the        *)
(* update_cell_path calls made and failed tells whether one returned Err.  *)

Untouched(ret) == [out |-> ret, tried |-> 0, failed |-> FALSE]

Counted(rest, failed) ==
    [rest EXCEPT !.tried = rest.tried + 1, !.failed = rest.failed \/ failed]

\* each path applied to the element as it came in: earlier writes are lost
RECURSIVE update_paths_forgetful(_, _, _, _)
ForgetfulNext(r, ret, paths, sp, checks) ==
    CASE r.kind = "Err" -> [out |-> ErrorValue(r.error), tried |-> 1, failed |-> TRUE]
      [] r.kind = "Panic" -> [out |-> Unwind, tried |-> 1, failed |-> FALSE]
      [] OTHER ->
            IF paths = <<>> THEN [out |-> r.val, tried |-> 1, failed |-> FALSE]
            ELSE Counted(update_paths_forgetful(ret, paths, sp, checks), FALSE)

update_paths_forgetful(ret, paths, sp, checks) ==
    IF paths = <<>> THEN Untouched(ret)
    ELSE ForgetfulNext(update_cell_path(ret, Head(paths), sp, checks),
                       ret, Tail(paths), sp, checks)

\* a failed update skipped instead of returned
RECURSIVE update_paths_keep_going(_, _, _, _)
KeepGoingNext(r, ret, paths, sp, checks) ==
    CASE r.kind = "Panic" -> [out |-> Unwind, tried |-> 1, failed |-> FALSE]
      [] r.kind = "Err" ->
            Counted(update_paths_keep_going(ret, paths, sp, checks), TRUE)
      [] OTHER ->
            Counted(update_paths_keep_going(r.val, paths, sp, checks), FALSE)

update_paths_keep_going(ret, paths, sp, checks) ==
    IF paths = <<>> THEN Untouched(ret)
    ELSE KeepGoingNext(update_cell_path(ret, Head(paths), sp, checks),
                       ret, Tail(paths), sp, checks)

RECURSIVE update_paths(_, _, _, _)
UpdateNext(r, paths, sp, checks) ==
    CASE r.kind = "Err" -> [out |-> ErrorValue(r.error), tried |-> 1, failed |-> TRUE]
      [] r.kind = "Panic" -> [out |-> Unwind, tried |-> 1, failed |-> FALSE]
      [] OTHER -> Counted(update_paths(r.val, paths, sp, checks), FALSE)

update_paths(ret, paths, sp, checks) ==
    IF paths = <<>> THEN Untouched(ret)
    ELSE UpdateNext(update_cell_path(ret, Head(paths), sp, checks), Tail(paths), sp, checks)

map_closure(v, paths, sp, checks) ==
    IF paths = <<>> THEN Untouched(action(v, sp, checks))
    ELSE update_paths(v, paths, sp, checks)

\* no flag handed to map
ctrlc_none(flag) == FALSE

\* the flag into_duration hands to map, and map's test of it
ctrlc_clone(flag) == flag

was_pressed(flag) == flag

----------------------------------------------------------------------------
(* The walk over the input: one pull per element, the flag polled first.   *)

PollCancelled ==
    /\ pc = "poll"
    /\ was_pressed(ctrlc_clone(ctrlc))
    /\ pc' = "stopped"
    /\ UNCHANGED <<input, column_paths, span, overflow_checks, ctrlc, idx,
                   output, invocations, attempts, phrase>>

PollExhausted ==
    /\ pc = "poll"
    /\ ~was_pressed(ctrlc_clone(ctrlc))
    /\ idx = Len(input)
    /\ pc' = "done"
    /\ UNCHANGED <<input, column_paths, span, overflow_checks, ctrlc, idx,
                   output, invocations, attempts, phrase>>

PollNext ==
    /\ pc = "poll"
    /\ ~was_pressed(ctrlc_clone(ctrlc))
    /\ idx < Len(input)
    /\ idx' = idx + 1
    /\ pc' = "convert"
    /\ UNCHANGED <<input, column_paths, span, overflow_checks, ctrlc,
                   output, invocations, attempts, phrase>>

\* r is what the closure made of the element pulled
Yield(r) ==
    /\ attempts' = Append(attempts, [tried |-> r.tried, failed |-> r.failed])
    /\ IF r.out = Unwind
       THEN pc' = "panicked" /\ output' = output
       ELSE pc' = "poll" /\ output' = Append(output, r.out)

Convert ==
    /\ pc = "convert"
    /\ Yield(map_closure(input[idx], column_paths, span, overflow_checks))
    /\ invocations' = invocations + 1
    /\ UNCHANGED <<input, column_paths, span, overflow_checks, ctrlc, idx, phrase>>

\* the interrupt handler sets the flag; nothing in the walk clears it
Cancel ==
    /\ pc \in {"poll", "convert"}
    /\ ~ctrlc
    /\ ctrlc' = TRUE
    /\ UNCHANGED <<input, column_paths, span, overflow_checks, pc, idx,
                   output, invocations, attempts, phrase>>

Next ==
    \/ PollCancelled
    \/ PollExhausted
    \/ PollNext
    \/ Convert
    \/ Cancel

----------------------------------------------------------------------------
(* Inputs.  A phrase is written from tokens <magnitude><unit> laid out     *)
(* with whitespace, as in the cases of turns_string_to_duration.           *)

MaxTokens == 3
MaxElems == 2

RECURSIVE NatToChars(_)
NatToChars(n) ==
    IF n < 10 THEN <<DigitChars[n + 1]>>
    ELSE Append(NatToChars(n \div 10), DigitChars[(n % 10) + 1])

IntToChars(n) == IF n < 0 THEN <<"-">> \o NatToChars(0 - n) ELSE NatToChars(n)

Token(n, u) == [valid |-> TRUE, n |-> n, unit |-> u, text |-> IntToChars(n) \o u]
BadToken(text) == [valid |-> FALSE, n |-> 0, unit |-> <<>>, text |-> text]

Spellings ==
    { <<"n", "s">>, <<"u", "s">>, <<MicroSign, "s">>, <<GreekMu, "s">>, <<"m", "s">>,
      <<"s", "e", "c">>, <<"m", "i", "n">>, <<"h", "r">>, <<"d", "a", "y">>, <<"w", "k">> }

Magnitudes == {0, 4, 0 - 7, 15250, 15251, 2147483647}

BadTokens ==
    { BadToken(<<"5", "x", "x">>), BadToken(<<"1", ".", "5", "h", "r">>),
      BadToken(<<"m", "i", "n">>), BadToken(<<"7">>), BadToken(<<"7", "s">>),
      BadToken(<<"7", "M", "I", "N">>), BadToken(<<"-", "h", "r">>) }

SingleTokens == {Token(n, u) : n \in Magnitudes, u \in Spellings} \cup BadTokens

CompoundTokens ==
    { Token(15250, <<"w", "k">>), Token(0 - 15250, <<"w", "k">>),
      Token(48, <<"h", "r">>), Token(14, <<"n", "s">>), BadToken(<<"5", "x", "x">>) }

SeqsUpTo(S, k) == UNION {[1..m -> S] : m \in 0..k}

Phrases == SeqsUpTo(SingleTokens, 1) \cup SeqsUpTo(CompoundTokens, MaxTokens)

Layouts == { [sep |-> <<" ">>, pad |-> <<>>], [sep |-> <<"\t", " ">>, pad |-> <<" ">>] }

RECURSIVE JoinTokens(_, _)
JoinTokens(tokens, sep) ==
    IF tokens = <<>> THEN <<>>
    ELSE IF Len(tokens) = 1 THEN tokens[1].text
    ELSE tokens[1].text \o sep \o JoinTokens(Tail(tokens), sep)

Layout(tokens, sep, pad) == pad \o JoinTokens(tokens, sep) \o pad

CallHead == Span(0, 13)

TextOf(n, u) == IntToChars(n) \o u

Str(text, start) == String(text, Span(start, start + ByteLength(text)))

Elements ==
    { Record(<<"value", "note">>,
             <<Str(TextOf(1, <<"s", "e", "c">>), 21), Bool(TRUE, Span(27, 31))>>,
             Span(20, 32)),
      Record(<<"value", "note">>,
             <<Str(<<"5", "x", "x">>, 41), Str(TextOf(2, <<"m", "i", "n">>), 46)>>,
             Span(40, 52)),
      Record(<<"note">>, <<Str(TextOf(3, <<"h", "r">>), 61)>>, Span(60, 66)),
      Record(<<"value", "inner">>,
             <<Str(TextOf(15251, <<"w", "k">>), 71),
               List(<<Str(TextOf(5, <<"w", "k">>), 81), Bool(FALSE, Span(86, 91))>>,
                    Span(80, 92))>>,
             Span(70, 93)),
      Duration(I64(7), Span(130, 133)),
      ErrorValue(CantConvertToDuration(<<"x">>, Span(140, 141), Span(140, 141))) }

Value == Column("value")
Note == Column("note")
Inner == Column("inner")

PathLists ==
    { <<>>,
      << <<Value>> >>,
      << <<Note>>, <<Value>> >>,
      << <<Inner, Row(0)>>, <<Inner, Row(1)>> >>,
      << <<Inner>>, <<Inner, Row(0)>> >>,
      << <<Inner, Row(0)>>, <<Inner>> >>,
      << <<Inner, Row(0)>>, <<Inner, Row(2)>> >> }

Started ==
    /\ span = CallHead
    /\ overflow_checks \in BOOLEAN
    /\ ctrlc = FALSE
    /\ pc = "poll"
    /\ idx = 0
    /\ output = <<>>
    /\ invocations = 0
    /\ attempts = <<>>

\* a sequence of values piped into `into duration` with cell paths
Init ==
    /\ input \in SeqsUpTo(Elements, MaxElems)
    /\ column_paths \in PathLists
    /\ phrase = <<>>
    /\ Started

\* one phrase piped into `into duration`
InitParse ==
    /\ \E toks \in Phrases, l \in Layouts :
          /\ phrase = toks
          /\ input = <<Str(Layout(toks, l.sep, l.pad), 20)>>
    /\ column_paths = <<>>
    /\ Started

Spec == Init /\ [][Next]_vars

SpecParse == InitParse /\ [][Next]_vars

----------------------------------------------------------------------------
(* What a phrase is worth: the multipliers of the unit table in            *)
(* nanoseconds, and exact sums in 16 bytes.                                *)

Multiplier(u) ==
    CASE u = <<"n", "s">> -> Wide(1)
      [] u \in {<<"u", "s">>, <<MicroSign, "s">>, <<GreekMu, "s">>} -> Wide(1000)
      [] u = <<"m", "s">> -> Wide(1000000)
      [] u = <<"s", "e", "c">> -> Wide(1000000000)
      [] u = <<"m", "i", "n">> -> MulTrunc(Wide(60), Wide(1000000000))
      [] u = <<"h", "r">> -> MulTrunc(Wide(3600), Wide(1000000000))
      [] u = <<"d", "a", "y">> -> MulTrunc(Wide(86400), Wide(1000000000))
      [] u = <<"w", "k">> -> MulTrunc(Wide(604800), Wide(1000000000))

Nanos(tok) == MulTrunc(Wide(tok.n), Multiplier(tok.unit))

\* the exact sum of the first k tokens
RECURSIVE PartialSum(_, _)
PartialSum(toks, k) ==
    IF k = 0 THEN Wide(0) ELSE AddCarry(PartialSum(toks, k - 1), Nanos(toks[k]), 0)

AllFit(toks) == \A i \in 1..Len(toks) : toks[i].valid /\ FitsI64(Nanos(toks[i]))

SumsFit(toks) == \A k \in 1..Len(toks) : FitsI64(PartialSum(toks, k))

Emitted == pc # "panicked" /\ output # <<>>

SingleFits == Len(phrase) = 1 /\ phrase[1].valid /\ FitsI64(Nanos(phrase[1]))

\* C1: a single token <n><u> whose n * multiplier(u) fits in an i64 is
\* converted to exactly n * multiplier(u) nanoseconds, by string_to_duration
\* and by action on a String holding the token; us, the micro sign and the
\* Greek mu share the multiplier 1000.
C1_SingleTokenExact ==
    SingleFits =>
        /\ pc # "panicked"
        /\ output # <<>> => output[1] = Duration(Truncate(Nanos(phrase[1])), span)
        /\ string_to_duration(phrase[1].text, input[1].span, overflow_checks)
              = Ok(Truncate(Nanos(phrase[1])))

C1_Witness ==
    /\ SingleFits
    /\ phrase[1].n = 15250
    /\ phrase[1].unit = <<"h", "r">>
    /\ Emitted
    /\ output[1].tag = "Duration"

SingleOverflows == Len(phrase) = 1 /\ phrase[1].valid /\ ~FitsI64(Nanos(phrase[1]))

\* C2: a token whose magnitude times its multiplier leaves the i64 range is
\* an error outcome, an Error value for the element: never a wrapped
\* nanosecond count and never an abort outside the return channel.
C2_ProductOverflowIsError ==
    SingleOverflows =>
        /\ pc # "panicked"
        /\ output # <<>> => output[1].tag = "Error"

SumOverflows == AllFit(phrase) /\ ~SumsFit(phrase)

\* C3: when adding a token to the running total leaves the i64 range the
\* parse fails with an error at that token; no wrapped total is returned,
\* even when later tokens bring the wrapped sum back into range.
C3_SumOverflowIsError ==
    SumOverflows =>
        /\ pc # "panicked"
        /\ output # <<>> => output[1].tag = "Error"

\* C4: when every token parses and no partial sum overflows, the result is
\* the sum of the tokens' nanosecond counts, whatever the order of the
\* tokens and the whitespace between and around them; a phrase without
\* tokens is worth 0.
C4_CompoundIsSum ==
    (AllFit(phrase) /\ SumsFit(phrase)) =>
        /\ pc # "panicked"
        /\ output # <<>> =>
              output[1] = Duration(Truncate(PartialSum(phrase, Len(phrase))), span)

C4_Witness ==
    /\ Len(phrase) = 3
    /\ AllFit(phrase) /\ SumsFit(phrase)
    /\ phrase[1].n = 14 /\ phrase[2].n = 15250 /\ phrase[3].n = 0 - 15250
    /\ Head(input[1].val) = " "
    /\ Emitted
    /\ output[1].tag = "Duration"

\* C9: a String whose text fails to parse becomes a cannot-convert error
\* carrying the offending text, the target span as its destination span,
\* the span of the offending text as its source span, and the help text.
C9_ErrorCarriesTargetSpan ==
    (Len(phrase) >= 1 /\ ~phrase[1].valid /\ output # <<>>) =>
        /\ output[1].tag = "Error"
        /\ output[1].error.kind = "CantConvertToDuration"
        /\ output[1].error.details = phrase[1].text
        /\ output[1].error.help = HelpText
        /\ output[1].error.src_span.end - output[1].error.src_span.start
              = ByteLength(phrase[1].text)
        /\ output[1].error.dst_span = span

----------------------------------------------------------------------------
(* Locations inside an element.                                            *)

RECURSIVE AllPaths(_)
AllPaths(v) ==
    {<<>>} \cup
    CASE v.tag = "Record" ->
            UNION { { <<Column(v.cols[i])>> \o q : q \in AllPaths(v.vals[i]) } :
                    i \in 1..Len(v.vals) }
      [] v.tag = "List" ->
            UNION { { <<Row(i - 1)>> \o q : q \in AllPaths(v.vals[i]) } :
                    i \in 1..Len(v.vals) }
      [] OTHER -> {}

RECURSIVE Follow(_, _)
Follow(v, path) ==
    IF path = <<>> THEN v ELSE Follow(v.vals[Select(v, Head(path))], Tail(path))

IsPrefix(p, q) == Len(p) <= Len(q) /\ SubSeq(q, 1, Len(p)) = p

Given == {column_paths[k] : k \in 1..Len(column_paths)}

\* a and b are the same but for what their fields or items hold
SameShell(a, b) ==
    /\ a.tag = b.tag
    /\ CASE a.tag = "Record" -> a.cols = b.cols /\ a.span = b.span
         [] a.tag = "List" -> Len(a.vals) = Len(b.vals) /\ a.span = b.span
         [] OTHER -> a = b

\* nothing of in is added, removed or changed outside the given locations
Framed(in, out) ==
    /\ AllPaths(out) \subseteq AllPaths(in)
    /\ \A q \in AllPaths(in) :
          (\A p \in Given : ~IsPrefix(p, q)) =>
              q \in AllPaths(out) /\ SameShell(Follow(out, q), Follow(in, q))

\* every given location holds the conversion of what the input has there
Converted(in, out) ==
    \A p \in Given :
        /\ p \in AllPaths(out)
        /\ Follow(out, p) = action(Follow(in, p), span, overflow_checks)

NoNesting == \A p \in Given, q \in Given : IsPrefix(p, q) => p = q

\* C5: without cancellation there is one output per input, in input order;
\* an element that fails becomes an Error value at its own position and
\* the walk goes on to the end of the input.
C5_OneOutputPerInput ==
    ~ctrlc =>
        /\ pc # "panicked"
        /\ Len(output) = IF pc = "convert" THEN idx - 1 ELSE idx
        /\ pc = "done" => Len(output) = Len(input)

\* C6 as stated: when paths are given and every path resolves in the
\* element, the output is the input except at the addressed locations, each
\* of which holds action of the value that was there.
C6_FrameWhenPathsResolve ==
    \A i \in 1..Len(output) :
        (column_paths # <<>> /\ Given \subseteq AllPaths(input[i])) =>
            Framed(input[i], output[i]) /\ Converted(input[i], output[i])

\* C6 amended: the same, for paths none of which is a proper prefix of
\* another.
C6_FrameWhenPathsResolveApart ==
    \A i \in 1..Len(output) :
        (column_paths # <<>> /\ Given \subseteq AllPaths(input[i]) /\ NoNesting) =>
            Framed(input[i], output[i]) /\ Converted(input[i], output[i])

C6_Witness ==
    /\ column_paths = << <<Inner, Row(0)>>, <<Inner, Row(1)>> >>
    /\ \E i \in 1..Len(output) :
          /\ Given \subseteq AllPaths(input[i])
          /\ output[i].tag = "Record"
          /\ Follow(output[i], <<Inner, Row(0)>>).tag = "Duration"
          /\ Follow(output[i], <<Inner, Row(1)>>).tag = "Error"
          /\ Follow(output[i], <<Value>>) = Follow(input[i], <<Value>>)

OtherSpans == {CallHead, Span(200, 213)}

\* C7: action returns a Duration and an Error as they are, so converting
\* what action returned, at any target span, changes nothing.
C7_Passthrough ==
    column_paths = <<>> =>
        \A i \in 1..Len(output) :
            /\ input[i].tag \in {"Duration", "Error"} => output[i] = input[i]
            /\ \A s \in OtherSpans : action(output[i], s, overflow_checks) = output[i]

C7_Witness ==
    /\ column_paths = <<>>
    /\ Len(output) = 2
    /\ input[1].tag = "Duration" /\ output[1].span # span
    /\ input[2].tag = "Error"

\* C8: the flag is polled once per element before the element is converted;
\* once it has been seen set nothing more is emitted and the closure is not
\* called again, and whatever is emitted is the result of a whole conversion.
C8_CancelStopsTheWalk ==
    [][ /\ pc = "stopped" => (output' = output /\ invocations' = invocations)
        /\ (pc = "poll" /\ ctrlc /\ pc' # pc) => pc' = "stopped"
        /\ invocations' # invocations => (pc = "convert" /\ invocations' = idx)
        /\ output' # output =>
              /\ pc = "convert"
              /\ Len(output') = Len(output) + 1
              /\ output'[Len(output')].tag # "Panic" ]_vars

C8_Witness ==
    /\ pc = "stopped"
    /\ Len(input) = 2
    /\ Len(output) = 1
    /\ invocations = 1

\* the first path that does not resolve when its turn comes: it is not in
\* the element, or a path before it has put a converted value above it
Unresolved(v, k) ==
    \/ column_paths[k] \notin AllPaths(v)
    \/ \E j \in 1..(k - 1) :
          IsPrefix(column_paths[j], column_paths[k]) /\ column_paths[j] # column_paths[k]

FirstFailing(v) ==
    IF \E k \in 1..Len(column_paths) : Unresolved(v, k)
    THEN CHOOSE k \in 1..Len(column_paths) :
            Unresolved(v, k) /\ \A j \in 1..(k - 1) : ~Unresolved(v, j)
    ELSE 0

\* C10: the paths are applied in the order given; at the first one that
\* fails the element's output is the Error value of that failure, no later
\* path is attempted and nothing written by the earlier paths is kept.
C10_FirstFailureIsTheOutput ==
    \A i \in 1..Len(output) :
        LET k == FirstFailing(input[i])
        IN  k # 0 =>
              /\ output[i].tag = "Error"
              /\ output[i].error.kind = "PathResolutionFailure"
              /\ \E m \in 1..Len(column_paths[k]) :
                    output[i].error.member = column_paths[k][m]
              /\ attempts[i] = [tried |-> k, failed |-> TRUE]

C10_Witness ==
    /\ column_paths = << <<Note>>, <<Value>> >>
    /\ \E i \in 1..Len(output) :
          /\ input[i].tag = "Record"
          /\ input[i].cols = <<"note">>
          /\ output[i].tag = "Error"
          /\ attempts[i].tried = 2

====
